---- MODULE Spec2Model ----
(***************************************************************************)
(* Model of server.py: a local static file server.  The script builds a    *)
(* socketserver.TCPServer on a fixed port with SimpleHTTPRequestHandler,   *)
(* overrides the MIME type of ".js", opens the browser and runs            *)
(* serve_forever until a KeyboardInterrupt.                                *)
(*                                                                         *)
(* Several runs of the script (instances) share one host, hence one port   *)
(* 8000 and one working directory.  Each instance is a sequential process  *)
(* whose position is pc[i]; its lines are the actions below.  The          *)
(* behaviour of the library calls made by each line (bind, accept loop,    *)
(* static handler, context-manager exit) is part of the action of that     *)
(* line.                                                                    *)
(***************************************************************************)
EXTENDS Integers, Sequences, FiniteSets, TLC

\* ------------------------------------------------------------------ bounds

\* Number of client connections made during a behaviour.
MaxConn == 2
\* Number of interrupt signals one instance may receive.
MaxSigints == 1

\* ------------------------------------------------------- program constants

PORT == 8000

\* The runs of the script on the host: a first and a second instance.
Instances == {1, 2}

\* boundPort[i] is the set of ports held by i's socket: empty, or {PORT}.
NoPort == {}
NoError == "none"
\* exit[i] is the set holding the exit status: empty while i runs.
Running == {}

\* ------------------------------------------------------------- filesystem

\* Requested paths, already split the way posixpath.splitext and
\* str.endswith("/") see them: base name, extension, trailing slash.
Root == [base |-> "", ext |-> "", slash |-> TRUE]
AppJs == [base |-> "app", ext |-> ".js", slash |-> FALSE]
LibJS == [base |-> "LIB", ext |-> ".JS", slash |-> FALSE]
SecretJs == [base |-> "secret", ext |-> ".js", slash |-> FALSE]
NopeJs == [base |-> "nope", ext |-> ".js", slash |-> FALSE]
DataGz == [base |-> "data", ext |-> ".gz", slash |-> FALSE]
StyleCss == [base |-> "style", ext |-> ".css", slash |-> FALSE]
Assets == [base |-> "assets", ext |-> "", slash |-> FALSE]
IndexHtml == [base |-> "index", ext |-> ".html", slash |-> FALSE]

Paths == {Root, AppJs, LibJS, SecretJs, NopeJs, DataGz, StyleCss, Assets}

\* do_GET and do_HEAD both answer through send_head and differ only in the
\* body that follows the headers.
Methods == {"GET", "HEAD"}

\* What send_head reads of a request: its path, and whether it carries an
\* If-Modified-Since header (and no If-None-Match) dated at or after the
\* file's modification.
Requests ==
    {r \in [path : Paths, ims : BOOLEAN] :
        r.ims => r.path \in {Root, AppJs, StyleCss, NopeJs}}

VARIABLES
    pc,          \* pc[i]: the line instance i is about to run / is blocked in
    boundPort,   \* boundPort[i]: ports held by i's listening socket
    stdout,      \* stdout[i]: lines printed by i
    err,         \* err[i]: the exception propagating out of / ending i
    exit,        \* exit[i]: process exit status, once i has ended
    browser,     \* browser[i]: the webbrowser.open calls made, with result
    sigints,     \* sigints[i]: pc at which each interrupt was delivered
    backlog,     \* backlog[i]: ids of connections queued on i's socket
    inflight,    \* inflight[i]: accepted connections being handled
    accepted,    \* accepted[i]: ids of connections in the order accepted
    served,      \* served[i]: connection and status of each response, in order
    last,        \* the latest request answered and its response, if any
    nextId,      \* id of the next client connection
    fsIndex,     \* what index.html in the working directory is
    fsListable,  \* whether os.listdir of the working directory succeeds
    mimeJs       \* what the built-in (mimetypes) table holds for ".js"

vars == <<pc, boundPort, stdout, err, exit, browser, sigints, backlog,
          inflight, accepted, served, last, nextId, fsIndex, fsListable, mimeJs>>

procVars == <<pc, boundPort, stdout, err, exit, browser, sigints>>
connVars == <<backlog, inflight, accepted, served, last, nextId>>
fsVars == <<fsIndex, fsListable, mimeJs>>

\* What a path of the working directory is.  The working directory itself
\* always exists and holds the files below, so it is non-empty.
Kind(p) ==
    CASE p = Root -> "dir"
      [] p = Assets -> "dir"
      [] p = AppJs -> "file"
      [] p = LibJS -> "file"
      [] p = DataGz -> "file"
      [] p = StyleCss -> "file"
      [] p = SecretJs -> "unreadable"
      [] p = IndexHtml -> fsIndex
      [] OTHER -> "missing"

isdir(p) == Kind(p) = "dir"
isfile(p) == Kind(p) \in {"file", "unreadable"}
CanOpen(p) == Kind(p) = "file"

\* ----------------------------------------------------------- MIME typing

\* str.lower on the extensions that occur.
Lower(ext) == IF ext = ".JS" THEN ".js" ELSE ext

\* SimpleHTTPRequestHandler.extensions_map before the script touches it.
DefaultExtensionsMap ==
    [e \in {".gz", ".Z", ".bz2", ".xz"} |->
        CASE e = ".gz" -> "application/gzip"
          [] e = ".Z" -> "application/octet-stream"
          [] e = ".bz2" -> "application/x-bzip2"
          [] e = ".xz" -> "application/x-xz"]

\* dict.update: entries of upd win, the others are kept.
DictUpdate(d, upd) ==
    [e \in (DOMAIN d) \cup (DOMAIN upd) |->
        IF e \in DOMAIN upd THEN upd[e] ELSE d[e]]

JsOverride == [e \in {".js"} |-> "application/javascript"]

extensions_map == DictUpdate(DefaultExtensionsMap, JsOverride)

\* mimetypes.guess_type: the built-in extension table (lower-cased lookup).
BuiltinTypes ==
    [e \in {".css", ".html"} \cup (IF mimeJs = "none" THEN {} ELSE {".js"}) |->
        CASE e = ".css" -> "text/css"
          [] e = ".html" -> "text/html"
          [] e = ".js" -> mimeJs]

mimetypes_guess(ext) ==
    IF Lower(ext) \in DOMAIN BuiltinTypes THEN BuiltinTypes[Lower(ext)] ELSE "none"

\* Faulty variant: the built-in table consulted before the handler's own table.
guess_type_builtin_first(map, p) ==
    IF mimetypes_guess(p.ext) # "none" THEN mimetypes_guess(p.ext)
    ELSE IF p.ext \in DOMAIN map THEN map[p.ext]
    ELSE IF Lower(p.ext) \in DOMAIN map THEN map[Lower(p.ext)]
    ELSE "application/octet-stream"

\* SimpleHTTPRequestHandler.guess_type with extensions_map = map.
guess_type(map, p) ==
    IF p.ext \in DOMAIN map THEN map[p.ext]
    ELSE IF Lower(p.ext) \in DOMAIN map THEN map[Lower(p.ext)]
    ELSE IF mimetypes_guess(p.ext) # "none" THEN mimetypes_guess(p.ext)
    ELSE "application/octet-stream"

\* -------------------------------------------------------- static handler

ErrorType == "text/html;charset=utf-8"
ListingType == "text/html; charset=utf-8"
NoType == ""

Reply(r, status, ctype) == [status |-> status, ctype |-> ctype]

\* send_head from "ctype = self.guess_type(path)" on: path names a file.
serve_file(r, p) ==
    LET ctype == guess_type(extensions_map, p) IN
    IF p.slash THEN Reply(r, 404, ErrorType)
    ELSE IF ~CanOpen(p) THEN Reply(r, 404, ErrorType)
    ELSE IF r.ims THEN Reply(r, 304, NoType)
    ELSE Reply(r, 200, ctype)

\* Faulty variant: directory listings are refused.
list_directory_forbidden(r, p) == Reply(r, 403, ErrorType)

\* SimpleHTTPRequestHandler.list_directory.
list_directory(r, p) ==
    IF p = Root /\ ~fsListable THEN Reply(r, 404, ErrorType)
    ELSE Reply(r, 200, ListingType)

\* SimpleHTTPRequestHandler.send_head, common to do_GET and do_HEAD.
send_head(r) ==
    IF isdir(r.path)
    THEN IF ~r.path.slash THEN Reply(r, 301, NoType)
         ELSE IF isfile(IndexHtml) THEN serve_file(r, IndexHtml)
         ELSE list_directory(r, r.path)
    ELSE serve_file(r, r.path)

\* ------------------------------------------------------------------- init

Init ==
    /\ pc = [i \in Instances |-> "start"]
    /\ boundPort = [i \in Instances |-> NoPort]
    /\ stdout = [i \in Instances |-> <<>>]
    /\ err = [i \in Instances |-> NoError]
    /\ exit = [i \in Instances |-> Running]
    /\ browser = [i \in Instances |-> <<>>]
    /\ sigints = [i \in Instances |-> <<>>]
    /\ backlog = [i \in Instances |-> <<>>]
    /\ inflight = [i \in Instances |-> {}]
    /\ accepted = [i \in Instances |-> <<>>]
    /\ served = [i \in Instances |-> <<>>]
    /\ last = <<>>
    /\ nextId = 1
    /\ fsIndex \in {"missing", "file", "unreadable"}
    /\ fsListable \in (IF fsIndex = "missing" THEN BOOLEAN ELSE {TRUE})
    /\ mimeJs \in {"none", "text/javascript"}

\* ------------------------------------------------ line 12: TCPServer(...)

PortInUse(i) == \E j \in Instances \ {i} : PORT \in boundPort[j]

\* Faulty variant: the socket is bound with address/port reuse, so a second bind
\* on the port succeeds.
CanBind_reuse(i) == TRUE

\* server_bind on ("", PORT) with allow_reuse_address = False.
CanBind(i) == ~PortInUse(i)

\* The constructor binds and listens; the with-block is entered.
TCPServer_ok(i) ==
    /\ pc[i] = "start"
    /\ CanBind(i)
    /\ boundPort' = [boundPort EXCEPT ![i] = {PORT}]
    /\ pc' = [pc EXCEPT ![i] = "print13"]
    /\ UNCHANGED <<stdout, err, exit, browser, sigints, connVars, fsVars>>

\* server_bind raises OSError (address in use); the constructor closes the
\* socket and re-raises; nothing catches it and the process ends.
TCPServer_fail(i) ==
    /\ pc[i] = "start"
    /\ ~CanBind(i)
    /\ err' = [err EXCEPT ![i] = "OSError"]
    /\ exit' = [exit EXCEPT ![i] = {1}]
    /\ pc' = [pc EXCEPT ![i] = "stopped"]
    /\ UNCHANGED <<boundPort, stdout, browser, sigints, connVars, fsVars>>

\* ------------------------------------------------------ lines 13-15

print_serving(i) ==
    /\ pc[i] = "print13"
    /\ stdout' = [stdout EXCEPT ![i] = Append(@, "Serving at")]
    /\ pc' = [pc EXCEPT ![i] = "print14"]
    /\ UNCHANGED <<boundPort, err, exit, browser, sigints, connVars, fsVars>>

print_opening(i) ==
    /\ pc[i] = "print14"
    /\ stdout' = [stdout EXCEPT ![i] = Append(@, "Opening browser")]
    /\ pc' = [pc EXCEPT ![i] = "open15"]
    /\ UNCHANGED <<boundPort, err, exit, browser, sigints, connVars, fsVars>>

\* Faulty variant: a browser that cannot be opened raises webbrowser.Error.
AfterBrowser_raise(ok) == IF ok THEN "select" ELSE "withexit"

\* Where control goes when webbrowser.open returns ok (True or False).
AfterBrowser(ok) == "select"

\* webbrowser.open returns True, or False when no browser could be opened.
webbrowser_open(i) ==
    /\ pc[i] = "open15"
    /\ \E ok \in BOOLEAN :
        /\ browser' = [browser EXCEPT ![i] = Append(@, [port |-> PORT, ok |-> ok])]
        /\ pc' = [pc EXCEPT ![i] = AfterBrowser(ok)]
        /\ err' = [err EXCEPT ![i] =
                     IF AfterBrowser(ok) = "select" THEN @ ELSE "webbrowser.Error"]
    /\ UNCHANGED <<boundPort, stdout, exit, sigints, connVars, fsVars>>

\* ------------------------------------------- line 17: httpd.serve_forever()

\* A client connects to the port; the kernel queues the connection on the
\* socket listening there.  A connection to a port nobody listens on is
\* refused and leaves no trace.
Connect(i) ==
    /\ nextId <= MaxConn
    /\ PORT \in boundPort[i]
    /\ backlog' = [backlog EXCEPT ![i] = Append(@, nextId)]
    /\ nextId' = nextId + 1
    /\ UNCHANGED <<procVars, inflight, accepted, served, last, fsVars>>

\* Faulty variant: a threading server, which accepts while a handler still runs.
MayAccept_threaded(i) == pc[i] \in {"select", "handle"}

\* The loop calls _handle_request_noblock only from select, that is after
\* the previous call has returned.
MayAccept(i) == pc[i] = "select"

\* selector.select reports the socket readable; get_request accepts the
\* oldest queued connection and process_request starts on it.
serve_accept(i) ==
    /\ MayAccept(i)
    /\ backlog[i] # <<>>
    /\ inflight' = [inflight EXCEPT ![i] = @ \cup {Head(backlog[i])}]
    /\ accepted' = [accepted EXCEPT ![i] = Append(@, Head(backlog[i]))]
    /\ backlog' = [backlog EXCEPT ![i] = Tail(@)]
    /\ pc' = [pc EXCEPT ![i] = "handle"]
    /\ UNCHANGED <<boundPort, stdout, err, exit, browser, sigints, served,
                   last, nextId, fsVars>>

\* Faulty variant: a request answered with an error ends the serve loop.
AfterReply_crash(reply) == IF reply.status >= 400 THEN "withexit" ELSE "select"

\* Where control goes once the handler has answered: back to select.
AfterReply(reply) == "select"

\* finish_request: the handler reads the request r the client sent on the
\* connection and answers it (do_GET / do_HEAD via send_head),
\* shutdown_request closes it, and the loop goes back to select.
serve_handle(i) ==
    /\ pc[i] = "handle"
    /\ \E c \in inflight[i], m \in Methods, r \in Requests :
        LET reply == send_head(r) IN
        /\ served' = [served EXCEPT ![i] =
                        Append(@, [id |-> c, status |-> reply.status])]
        /\ last' = <<[inst |-> i, id |-> c, req |-> r, reply |-> reply]>>
        /\ inflight' = [inflight EXCEPT ![i] = @ \ {c}]
        /\ pc' = [pc EXCEPT ![i] =
                    IF inflight[i] \ {c} # {} THEN "handle" ELSE AfterReply(reply)]
        /\ err' = [err EXCEPT ![i] =
                    IF AfterReply(reply) = "select" THEN @ ELSE "Exception"]
    /\ UNCHANGED <<boundPort, stdout, exit, browser, sigints, backlog, accepted,
                   nextId, fsVars>>

\* ------------------------------------------------------- KeyboardInterrupt

Live == {"start", "print13", "print14", "open15", "select", "handle", "except19"}

\* Faulty variant: no try block at all.
InTry_none(i) == FALSE

\* The try block of lines 16-17 covers serve_forever only.
InTry(i) == pc[i] \in {"select", "handle"}

\* SIGINT while inside the try block: KeyboardInterrupt leaves serve_forever
\* (a request being handled is abandoned: shutdown_request, then re-raise)
\* and is caught at line 18.
interrupt_caught(i) ==
    /\ pc[i] \in Live
    /\ Len(sigints[i]) < MaxSigints
    /\ InTry(i)
    /\ sigints' = [sigints EXCEPT ![i] = Append(@, pc[i])]
    /\ inflight' = [inflight EXCEPT ![i] = {}]
    /\ pc' = [pc EXCEPT ![i] = "except19"]
    /\ UNCHANGED <<boundPort, stdout, err, exit, browser, backlog, accepted,
                   served, last, nextId, fsVars>>

\* SIGINT anywhere else: KeyboardInterrupt is not caught.  Inside the
\* with-block it propagates through __exit__; before it the process just ends.
interrupt_uncaught(i) ==
    /\ pc[i] \in Live
    /\ Len(sigints[i]) < MaxSigints
    /\ ~InTry(i)
    /\ sigints' = [sigints EXCEPT ![i] = Append(@, pc[i])]
    /\ err' = [err EXCEPT ![i] = "KeyboardInterrupt"]
    /\ pc' = [pc EXCEPT ![i] = IF pc[i] = "start" THEN "stopped" ELSE "withexit"]
    /\ exit' = [exit EXCEPT ![i] = IF pc[i] = "start" THEN {130} ELSE @]
    /\ UNCHANGED <<boundPort, stdout, browser, connVars, fsVars>>

\* ------------------------------------------------ lines 18-19 and with-exit

print_stopped(i) ==
    /\ pc[i] = "except19"
    /\ stdout' = [stdout EXCEPT ![i] = Append(@, "Server stopped.")]
    /\ pc' = [pc EXCEPT ![i] = "withexit"]
    /\ UNCHANGED <<boundPort, err, exit, browser, sigints, connVars, fsVars>>

\* Faulty variant: no with-statement, the socket is left to the process's end and
\* stays bound (lingering) after it.
PortAfterClose_leak(i) == boundPort[i]

\* server_close: the listening socket is closed and its port released.
PortAfterClose(i) == NoPort

\* __exit__ of the with-block runs server_close, whatever leaves the block;
\* then the process ends: status 0 when nothing propagates, the
\* interpreter's failure status (traceback) otherwise.
with_exit(i) ==
    /\ pc[i] = "withexit"
    /\ boundPort' = [boundPort EXCEPT ![i] = PortAfterClose(i)]
    /\ backlog' = [backlog EXCEPT ![i] = <<>>]
    /\ exit' = [exit EXCEPT ![i] =
                  CASE err[i] = NoError -> {0}
                    [] err[i] = "KeyboardInterrupt" -> {130}
                    [] OTHER -> {1}]
    /\ pc' = [pc EXCEPT ![i] = "stopped"]
    /\ UNCHANGED <<stdout, err, browser, sigints, inflight, accepted, served,
                   last, nextId, fsVars>>

\* ------------------------------------------------------------------- spec

Next ==
    \/ \E i \in Instances : TCPServer_ok(i)
    \/ \E i \in Instances : TCPServer_fail(i)
    \/ \E i \in Instances : print_serving(i)
    \/ \E i \in Instances : print_opening(i)
    \/ \E i \in Instances : webbrowser_open(i)
    \/ \E i \in Instances : Connect(i)
    \/ \E i \in Instances : serve_accept(i)
    \/ \E i \in Instances : serve_handle(i)
    \/ \E i \in Instances : interrupt_caught(i)
    \/ \E i \in Instances : interrupt_uncaught(i)
    \/ \E i \in Instances : print_stopped(i)
    \/ \E i \in Instances : with_exit(i)

Spec == Init /\ [][Next]_vars

TypeOK ==
    /\ pc \in [Instances -> Live \cup {"withexit", "stopped"}]
    /\ boundPort \in [Instances -> {NoPort, {PORT}}]
    /\ \A i \in Instances : Len(sigints[i]) <= MaxSigints
    /\ nextId \in 1..(MaxConn + 1)

\* ---------------------------------------------------------------- helpers

Ids(seq) == [k \in 1..Len(seq) |-> seq[k].id]

Count(line, out) == Cardinality({k \in 1..Len(out) : out[k] = line})

Holders == {i \in Instances : PORT \in boundPort[i]}

\* The path whose bytes answer a request that names a file: the index file
\* for the root directory, the path itself otherwise.
Resolved(r) == IF r.path = Root /\ isfile(IndexHtml) THEN IndexHtml ELSE r.path

\* The state of the specification's state machine an instance is in.  An
\* instance unwinding the with-block because of an uncaught exception is in
\* none of them ("Failing").
Lifecycle(i) ==
    CASE pc[i] = "start" -> "Created"
      [] pc[i] \in {"print13", "print14", "open15", "select", "handle"} -> "Listening"
      [] pc[i] = "except19" -> "Interrupted"
      [] pc[i] = "withexit" -> IF err[i] = NoError THEN "Interrupted" ELSE "Failing"
      [] OTHER -> "Stopped"

\* ----------------------------------------------------------------- claims

\* C1: an interrupt delivered while the instance is in serve_forever (and no
\* other interrupt) is caught: once the instance has stopped, it has printed
\* the shutdown message exactly once, its listener is closed and its exit
\* status is 0; the handler and the with-exit are never blocked; and no
\* request is served once an interrupt has been delivered.
C1_InterruptWhileServing ==
    /\ [](\A i \in Instances :
            /\ (sigints[i] \in {<<"select">>, <<"handle">>} /\ pc[i] = "stopped") =>
                  /\ exit[i] = {0}
                  /\ err[i] = NoError
                  /\ Count("Server stopped.", stdout[i]) = 1
                  /\ boundPort[i] = NoPort
            /\ (sigints[i] \in {<<"select">>, <<"handle">>}) =>
                  pc[i] \in {"except19", "withexit", "stopped"}
            /\ pc[i] = "except19" => ENABLED print_stopped(i)
            /\ pc[i] = "withexit" => ENABLED with_exit(i))
    /\ [][\A i \in Instances :
            sigints'[i] # <<>> => served'[i] = served[i] /\ accepted'[i] = accepted[i]]_vars

C1_Witness ==
    \E i \in Instances :
        /\ sigints[i] = <<"select">>
        /\ pc[i] = "stopped"
        /\ exit[i] = {0}
        /\ Len(served[i]) >= 1

\* C2: a request for a path that is missing, or is a file that cannot be
\* opened, is answered 404, and answering it leaves the server in its loop:
\* still listening, nothing raised, not exited, and able to accept and to
\* answer the next connection.
C2_NotFoundKeepsServing ==
    /\ [](/\ \A k \in 1..Len(last) :
                Kind(last[k].req.path) \in {"missing", "unreadable"} =>
                    last[k].reply.status = 404
          /\ \A i \in Instances :
                /\ (pc[i] = "select" /\ backlog[i] # <<>>) => ENABLED serve_accept(i)
                /\ pc[i] = "handle" => ENABLED serve_handle(i))
    /\ [][\A i \in Instances :
            (Len(served'[i]) > Len(served[i])
                /\ served'[i][Len(served'[i])].status = 404) =>
                    /\ pc'[i] = "select"
                    /\ PORT \in boundPort'[i]
                    /\ err'[i] = NoError
                    /\ exit'[i] = Running]_vars

C2_Witness ==
    \E i \in Instances :
        /\ Len(served[i]) = 2
        /\ served[i][1].status = 404
        /\ served[i][2].status = 200
        /\ pc[i] = "select"

\* C3: an instance whose bind finds the port held by another instance fails
\* there: it ends with an OSError and a non-zero status, has printed nothing,
\* opened no browser, holds no port and served nothing; it never leaves the
\* stopped state (no retry); and its failure changes nothing of the others.
C3_SecondInstanceFails ==
    /\ [](\A i \in Instances :
            err[i] = "OSError" =>
                /\ pc[i] = "stopped"
                /\ exit[i] # Running /\ 0 \notin exit[i]
                /\ stdout[i] = <<>>
                /\ browser[i] = <<>>
                /\ boundPort[i] = NoPort
                /\ accepted[i] = <<>>)
    /\ [][\A i \in Instances :
            /\ (pc[i] = "start" /\ pc'[i] # "start" /\ sigints'[i] = sigints[i]
                    /\ Holders \ {i} # {}) =>
                   /\ err'[i] = "OSError"
                   /\ pc'[i] = "stopped"
                   /\ \A j \in Instances \ {i} :
                         /\ pc'[j] = pc[j] /\ boundPort'[j] = boundPort[j]
                         /\ stdout'[j] = stdout[j] /\ backlog'[j] = backlog[j]
                         /\ served'[j] = served[j] /\ exit'[j] = exit[j]
            /\ pc[i] = "stopped" => pc'[i] = "stopped"]_vars

C3_Witness ==
    \E i, j \in Instances :
        /\ err[i] = "OSError"
        /\ pc[j] = "select"
        /\ Len(served[j]) >= 1

\* C4 as stated: every request for an existing file with extension .js is
\* answered with Content-Type application/javascript.
C4_Original ==
    \A k \in 1..Len(last) :
        (isfile(last[k].req.path) /\ last[k].req.path.ext = ".js") =>
            last[k].reply.ctype = "application/javascript"

\* C4 amended: a request for an existing .js file is answered 200 exactly
\* when the file can be opened and the request is not a satisfied
\* If-Modified-Since revalidation, and then with Content-Type
\* application/javascript whatever the built-in table holds for .js;
\* otherwise it is answered 404 (error page type) or 304 (no type).  A file
\* of another extension served with 200 has the type it has without the
\* override.
C4_JsContentType ==
    \A k \in 1..Len(last) :
        LET r == last[k].req
            reply == last[k].reply
            p == Resolved(r)
        IN  /\ (isfile(r.path) /\ Lower(r.path.ext) = ".js") =>
                /\ reply.status = 200 <=> (CanOpen(r.path) /\ ~r.ims)
                /\ reply.status = 200 => reply.ctype = "application/javascript"
                /\ reply.status # 200 =>
                      \/ reply.status = 404 /\ reply.ctype = ErrorType
                      \/ reply.status = 304 /\ reply.ctype = NoType
            /\ (isfile(p) /\ Lower(p.ext) # ".js" /\ reply.status = 200) =>
                reply.ctype = guess_type(DefaultExtensionsMap, p)

C4_Witness ==
    \E k \in 1..Len(last) :
        /\ last[k].req.path = AppJs
        /\ last[k].reply.status = 200
        /\ last[k].reply.ctype = "application/javascript"
        /\ mimeJs = "text/javascript"

\* C5 as stated: an interrupt delivered once the listener is bound (lines
\* 13 to 17) ends the instance through the clean-shutdown path: shutdown
\* message printed, nothing uncaught, exit status 0.
C5_InterruptAlwaysClean ==
    \A i \in Instances :
        (pc[i] = "stopped" /\ Len(sigints[i]) = 1
            /\ sigints[i][1] \in {"print13", "print14", "open15", "select", "handle"}) =>
                /\ exit[i] = {0}
                /\ err[i] = NoError
                /\ Count("Server stopped.", stdout[i]) = 1

\* C6 as stated: a request for "/" (the working directory is non-empty) is
\* answered 200, never with an error status.  A conditional request is held
\* only to the second half.
C6_Original ==
    \A k \in 1..Len(last) :
        last[k].req.path = Root =>
            /\ ~last[k].req.ims => last[k].reply.status = 200
            /\ last[k].reply.status < 400

\* C6 amended: a request for "/" is answered 200 when the index file is
\* present and can be opened and the request is not a satisfied
\* If-Modified-Since revalidation (the index file, typed by its extension),
\* or when there is no index file and the directory can be listed (a
\* generated listing); in the remaining cases it is answered 304 (index not
\* modified) or 404 (index unreadable, directory not listable).
C6_RootAnswered ==
    \A k \in 1..Len(last) :
        LET r == last[k].req
            reply == last[k].reply
        IN  r.path = Root =>
                /\ (fsIndex = "file" /\ ~r.ims) =>
                      reply.status = 200 /\ reply.ctype = "text/html"
                /\ (fsIndex = "missing" /\ fsListable) =>
                      reply.status = 200 /\ reply.ctype = ListingType
                /\ (fsIndex = "file" /\ r.ims) => reply.status = 304
                /\ (fsIndex = "unreadable" \/ (fsIndex = "missing" /\ ~fsListable)) =>
                      reply.status = 404

C6_Witness ==
    \E k \in 1..Len(last) :
        /\ last[k].req.path = Root
        /\ fsIndex = "missing"
        /\ last[k].reply.status = 200
        /\ last[k].reply.ctype = ListingType

\* C7 as stated: an instance moves only along Created -> Listening ->
\* Interrupted -> Stopped (or Created -> Stopped); requests are served in
\* Listening only; Stopped is terminal; Listening is left only by an
\* interrupt.
C7_Lifecycle ==
    [][\A i \in Instances :
        /\ <<Lifecycle(i), Lifecycle(i)'>> \in
              {<<"Created", "Created">>, <<"Created", "Listening">>,
               <<"Created", "Stopped">>, <<"Listening", "Listening">>,
               <<"Listening", "Interrupted">>, <<"Interrupted", "Interrupted">>,
               <<"Interrupted", "Stopped">>, <<"Stopped", "Stopped">>}
        /\ served'[i] # served[i] => Lifecycle(i) = "Listening"
        /\ (Lifecycle(i) = "Listening" /\ sigints'[i] = sigints[i]) =>
               Lifecycle(i)' = "Listening"]_vars

\* C8: an instance handles at most one connection at a time, accepts
\* connections in the order they arrived, and answers them in the order it
\* accepted them: a connection waits in the backlog while another is being
\* handled.
C8_OneAtATime ==
    \A i \in Instances :
        /\ Cardinality(inflight[i]) <= 1
        /\ inflight[i] # {} => pc[i] = "handle"
        /\ Len(served[i]) <= Len(accepted[i])
        /\ Len(accepted[i]) - Len(served[i]) <= 1
        /\ Ids(served[i]) = SubSeq(accepted[i], 1, Len(served[i]))
        /\ \A k \in 1..Len(accepted[i]) : \A l \in 1..Len(accepted[i]) :
              k < l => accepted[i][k] < accepted[i][l]
        /\ \A k \in 1..Len(backlog[i]) : \A l \in 1..Len(accepted[i]) :
              accepted[i][l] < backlog[i][k]

C8_Witness ==
    \E i \in Instances :
        /\ inflight[i] # {}
        /\ backlog[i] # <<>>
        /\ \A k \in 1..Len(backlog[i]) : \A c \in inflight[i] : c < backlog[i][k]

\* C9: webbrowser.open is called at most once by an instance, for the
\* server's own port, while the listener is bound and before the serve loop:
\* never before line 15, exactly once from the serve loop on.  Whatever it
\* returns, the instance enters serve_forever with nothing raised.
C9_BrowserOnce ==
    /\ [](\A i \in Instances :
            /\ Len(browser[i]) <= 1
            /\ pc[i] \in {"start", "print13", "print14", "open15"} => browser[i] = <<>>
            /\ (pc[i] \in {"select", "handle", "except19"} \/ accepted[i] # <<>>) =>
                  Len(browser[i]) = 1
            /\ \A k \in 1..Len(browser[i]) : browser[i][k].port = PORT)
    /\ [][\A i \in Instances :
            browser'[i] # browser[i] =>
                /\ PORT \in boundPort[i]
                /\ accepted[i] = <<>>
                /\ pc'[i] = "select"
                /\ PORT \in boundPort'[i]
                /\ err'[i] = NoError
                /\ exit'[i] = Running]_vars

C9_Witness ==
    \E i \in Instances :
        /\ browser[i] = <<[port |-> PORT, ok |-> FALSE]>>
        /\ Len(served[i]) >= 1

\* C10: an instance holds the port exactly from a successful bind until it
\* leaves the with-block, whether by the caught interrupt or by an uncaught
\* exception: a stopped instance holds nothing, and no two instances hold
\* the port at once.
C10_ListenerReleased ==
    /\ Cardinality(Holders) <= 1
    /\ \A i \in Instances :
        /\ pc[i] = "stopped" => boundPort[i] = NoPort
        /\ PORT \in boundPort[i] <=>
              pc[i] \in {"print13", "print14", "open15", "select", "handle",
                         "except19", "withexit"}

C10_Witness ==
    \E i, j \in Instances :
        /\ pc[i] = "stopped"
        /\ err[i] = "KeyboardInterrupt"
        /\ sigints[i] = <<"open15">>
        /\ PORT \in boundPort[j]
        /\ pc[j] = "select"

====
